---------------------------- MODULE Spec2Model ----------------------------
(***************************************************************************)
(* A model of jscheme.js (lines 1-224, the trampolined interpreter): the   *)
(* reader (tokenize, parse), the Environment chain, the evaluator with its *)
(* Thunk/trampoline mechanism, the printer and the repl loop.  Lines       *)
(* 226-413 of the file repeat the program in its earlier form, in which    *)
(* evaluate calls itself and no Thunk exists; they are not modelled.       *)
(*                                                                         *)
(* Text is a sequence of characters.  A character is a one-character       *)
(* string; a run of characters that holds no parenthesis, no quote mark    *)
(* and no white space, and that does not start with a digit or a sign, may *)
(* be written as one element ("define") since tokenize and parseFloat      *)
(* treat every character of such a run alike.  The modelled alphabet holds *)
(* no "." and no exponent, so a number is an optional sign and digits.     *)
(*                                                                         *)
(* A JavaScript value is a tuple whose first element is its type tag:      *)
(*   <<"num", n>>  <<"nan">>  <<"bool", b>>  <<"sym", text>> (a string)    *)
(*   <<"real">> (a number that is no integer: a fraction, an infinity)     *)
(*   <<"null">>  <<"undefined">>  <<"cons", car, cdr>>                     *)
(*   <<"prim", name>>  <<"closure", args, env>>   (typeof is 'function')   *)
(*   <<"thunk", kind, ...>>                       (instanceof Thunk)       *)
(* An Environment is an index into heap; 0 is the null parent.             *)
(***************************************************************************)
EXTENDS Integers, Sequences, FiniteSets, TLC

VARIABLES
    pc,        \* repl: "prompt" while the loop runs, "exit" after the break
    heap,      \* the Environment objects; heap[GlobalEnv] is globalEnv
    lastInput, \* the line prompt() returned last
    out,       \* what the last iteration wrote: console.log or console.error
    trace,     \* the calls the last iteration made, in order
    maxDepth,  \* the deepest nesting of native calls in the last iteration
    lines,     \* the number of lines read so far
    rin,       \* SpecReader: the text handed to parse
    rout       \* SpecReader: what parse returned or threw

vars == <<pc, heap, lastInput, out, trace, maxDepth, lines, rin, rout>>

-----------------------------------------------------------------------------
(* Bounds *)

\* the longest text SpecReader hands to parse
MaxLen == 4
\* the largest n of the line (loop n)
MaxN == 3
\* the number of lines one session reads
MaxLines == 2

\* the characters SpecReader draws its text from
Alphabet == {"(", ")", "'", " ", "a", "1"}

-----------------------------------------------------------------------------
(* Values *)

Num(n) == <<"num", n>>
NaN == <<"nan">>
Bool(b) == <<"bool", b>>
Sym(s) == <<"sym", s>>
Null == <<"null">>
Undefined == <<"undefined">>
Cons(car, cdr) == <<"cons", car, cdr>>

Tag(v) == v[1]
IsCons(v) == Tag(v) = "cons"
IsString(v) == Tag(v) = "sym"
IsFunction(v) == Tag(v) \in {"prim", "closure"}
IsThunk(v) == Tag(v) = "thunk"

\* No error was thrown.
NoError == <<>>

-----------------------------------------------------------------------------
(* Reader *)

WhiteSpace == {" "}
Digits == {"0", "1", "2", "3", "4", "5", "6", "7", "8", "9"}

DigitValue(c) ==
    CASE c = "0" -> 0 [] c = "1" -> 1 [] c = "2" -> 2 [] c = "3" -> 3
      [] c = "4" -> 4 [] c = "5" -> 5 [] c = "6" -> 6 [] c = "7" -> 7
      [] c = "8" -> 8 [] c = "9" -> 9

\* input.replace(/\(/g, ' ( ').replace(/\)/g, ' ) ')
RECURSIVE PadParens(_)
PadParens(text) ==
    IF text = <<>> THEN <<>>
    ELSE IF Head(text) \in {"(", ")"}
         THEN <<" ", Head(text), " ">> \o PadParens(Tail(text))
         ELSE <<Head(text)>> \o PadParens(Tail(text))

RECURSIVE TrimStart(_)
TrimStart(text) ==
    IF text # <<>> /\ Head(text) \in WhiteSpace THEN TrimStart(Tail(text)) ELSE text

RECURSIVE TrimEnd(_)
TrimEnd(text) ==
    IF text # <<>> /\ text[Len(text)] \in WhiteSpace
    THEN TrimEnd(SubSeq(text, 1, Len(text) - 1))
    ELSE text

\* String.prototype.trim
Trim(text) == TrimEnd(TrimStart(text))

\* String.prototype.split(/\s+/): the pieces between the maximal runs of white
\* space; cur is the piece being read.  The empty text has no separator in it
\* and splits into one empty piece.
RECURSIVE SplitWs(_, _)
SplitWs(text, cur) ==
    IF text = <<>> THEN <<cur>>
    ELSE IF Head(text) \in WhiteSpace
         THEN <<cur>> \o SplitWs(TrimStart(text), <<>>)
         ELSE SplitWs(Tail(text), Append(cur, Head(text)))

tokenize(input) == SplitWs(Trim(PadParens(input)), <<>>)

\* parseFloat(token): the longest prefix that is a number, NaN when there is
\* none.
RECURSIVE DigitRun(_, _)
DigitRun(text, acc) ==
    IF text # <<>> /\ Head(text) \in Digits
    THEN DigitRun(Tail(text), 10 * acc + DigitValue(Head(text)))
    ELSE acc

parseFloat(token) ==
    LET signed == token # <<>> /\ Head(token) \in {"+", "-"}
        body == IF signed THEN Tail(token) ELSE token
    IN  IF body = <<>> \/ Head(body) \notin Digits THEN NaN
        ELSE IF signed /\ Head(token) = "-"
             THEN Num(0 - DigitRun(body, 0))
             ELSE Num(DigitRun(body, 0))

parseAtom(token) ==
    IF token = <<"#t">> \/ token = <<"#f">> THEN Bool(token = <<"#t">>)
    ELSE IF parseFloat(token) # NaN THEN parseFloat(token)
         ELSE Sym(token)

RECURSIVE arrayToLinkedList(_)
arrayToLinkedList(array) ==
    IF Len(array) = 0 THEN Null
    ELSE Cons(array[1], arrayToLinkedList(Tail(array)))

\* parseExpression, with the cursor `position` (counted from 0 as in the code)
\* passed in and returned.  tokens[position] is undefined exactly when
\* position >= tokens.length.
RECURSIVE parseExpression(_, _)
RECURSIVE parseListItems(_, _, _)
parseExpression(tokens, position) ==
    IF position >= Len(tokens)
    THEN [v |-> Undefined, position |-> position + 1,
          err |-> <<"Unexpected end of input">>]
    ELSE LET token == tokens[position + 1]
             next == position + 1
         IN  IF token = <<"(">> THEN parseListItems(tokens, next, <<>>)
             ELSE IF token = <<")">>
             THEN [v |-> Undefined, position |-> next,
                   err |-> <<"Unexpected closing parenthesis">>]
             ELSE IF token = <<"'">>
             THEN LET quoted == parseExpression(tokens, next)
                  IN  IF quoted.err # NoError THEN quoted
                      ELSE [v |-> Cons(Sym(<<"quote">>), Cons(quoted.v, Null)),
                            position |-> quoted.position, err |-> NoError]
             ELSE [v |-> parseAtom(token), position |-> next, err |-> NoError]

\* the while loop of the '(' branch
parseListItems(tokens, position, list) ==
    IF position < Len(tokens) /\ tokens[position + 1] = <<")">>
    THEN [v |-> arrayToLinkedList(list), position |-> position + 1,
          err |-> NoError]
    ELSE IF position >= Len(tokens)
    THEN [v |-> Undefined, position |-> position,
          err |-> <<"Unmatched parenthesis">>]
    ELSE LET item == parseExpression(tokens, position)
         IN  IF item.err # NoError THEN item
             ELSE parseListItems(tokens, item.position, Append(list, item.v))

parse(input) ==
    LET tokens == tokenize(input)
        result == parseExpression(tokens, 0)
    IN  IF result.err # NoError THEN [v |-> Undefined, err |-> result.err]
        ELSE IF result.position # Len(tokens)
        THEN [v |-> Undefined, err |-> <<"Unexpected extra input">>]
        ELSE [v |-> result.v, err |-> NoError]


-----------------------------------------------------------------------------
(* Printer *)

DigitChar(n) ==
    CASE n = 0 -> "0" [] n = 1 -> "1" [] n = 2 -> "2" [] n = 3 -> "3"
      [] n = 4 -> "4" [] n = 5 -> "5" [] n = 6 -> "6" [] n = 7 -> "7"
      [] n = 8 -> "8" [] n = 9 -> "9"

RECURSIVE NumText(_)
NumText(n) ==
    IF n < 0 THEN <<"-">> \o NumText(0 - n)
    ELSE IF n < 10 THEN <<DigitChar(n)>>
    ELSE NumText(n \div 10) \o <<DigitChar(n % 10)>>

\* String(v).  The text of a function is its source, one opaque element here;
\* a number that is no integer has one opaque element as its digits.
String(v) ==
    CASE Tag(v) = "num" -> NumText(v[2])
      [] Tag(v) = "nan" -> <<"NaN">>
      [] Tag(v) = "real" -> <<"[non-integer]">>
      [] Tag(v) = "bool" -> IF v[2] THEN <<"true">> ELSE <<"false">>
      [] Tag(v) = "sym" -> v[2]
      [] Tag(v) = "null" -> <<"null">>
      [] Tag(v) = "undefined" -> <<"undefined">>
      [] Tag(v) \in {"prim", "closure"} -> <<"[function source]">>
      [] OTHER -> <<"[object Object]">>

RECURSIVE linkedListToArray(_)
linkedListToArray(list) ==
    IF IsCons(list) THEN <<list[2]>> \o linkedListToArray(list[3]) ELSE <<>>

\* Array.prototype.join(' ') of texts
RECURSIVE Join(_)
Join(texts) ==
    IF texts = <<>> THEN <<>>
    ELSE IF Len(texts) = 1 THEN texts[1]
    ELSE texts[1] \o <<" ">> \o Join(Tail(texts))

RECURSIVE printExpr(_)
printExpr(expr) ==
    IF IsCons(expr)
    THEN LET items == linkedListToArray(expr)
         IN  <<"(">> \o Join([i \in 1..Len(items) |-> printExpr(items[i])])
                    \o <<")">>
    ELSE IF IsString(expr) THEN expr[2]
    ELSE IF Tag(expr) = "bool" THEN (IF expr[2] THEN <<"#t">> ELSE <<"#f">>)
    ELSE String(expr)

-----------------------------------------------------------------------------
(* Environment *)

GlobalEnv == 1

\* new Environment(parent): the heap with the new object appended
NewEnvironmentNoParent(h, parent) == Append(h, [vars |-> <<>>, parent |-> 0])
NewEnvironment(h, parent) == Append(h, [vars |-> <<>>, parent |-> parent])

RECURSIVE lookup(_, _, _)
lookup(h, env, symbol) ==
    IF symbol \in DOMAIN h[env].vars
    THEN [v |-> h[env].vars[symbol], err |-> NoError]
    ELSE IF h[env].parent # 0 THEN lookup(h, h[env].parent, symbol)
    ELSE [v |-> Undefined, err |-> <<"Undefined variable: ">> \o String(symbol)]

\* this.vars.set(symbol, value)
MapSet(map, key, value) ==
    [k \in DOMAIN map \cup {key} |-> IF k = key THEN value ELSE map[k]]

RECURSIVE RootOf(_, _)
RootOf(h, env) == IF h[env].parent = 0 THEN env ELSE RootOf(h, h[env].parent)

defineInRoot(h, env, symbol, value) ==
    [h EXCEPT ![RootOf(h, env)].vars = MapSet(@, symbol, value)]
define(h, env, symbol, value) ==
    [h EXCEPT ![env].vars = MapSet(@, symbol, value)]

-----------------------------------------------------------------------------
(* Primitives of the global environment (repl) *)

\* ToNumber of the operand of an arithmetic operator or a comparison.  A symbol
\* is a string that parseFloat rejected; only the empty one converts (to 0).
ToNumber(v) ==
    CASE Tag(v) \in {"num", "nan", "real"} -> v
      [] Tag(v) = "bool" -> Num(IF v[2] THEN 1 ELSE 0)
      [] Tag(v) = "null" -> Num(0)
      [] Tag(v) = "sym" -> IF v[2] = <<>> THEN Num(0) ELSE NaN
      [] OTHER -> NaN

\* <<"real">> stands for a number that is no integer (a fraction, an infinity);
\* arithmetic on it is not followed further and yields <<"real">> again.
Real == <<"real">>

Arith(op, x, y) ==
    IF x = NaN \/ y = NaN THEN NaN
    ELSE IF x = Real \/ y = Real THEN Real
    ELSE CASE op = "+" -> Num(x[2] + y[2])
           [] op = "-" -> Num(x[2] - y[2])
           [] op = "*" -> Num(x[2] * y[2])
           [] op = "/" -> IF y[2] = 0 THEN (IF x[2] = 0 THEN NaN ELSE Real)
                          ELSE IF x[2] % y[2] = 0 THEN Num(x[2] \div y[2])
                          ELSE Real

\* a + b concatenates when an operand is a string or an object
Concatenates(v) == Tag(v) \in {"sym", "cons", "prim", "closure", "thunk"}

\* (a, b) => a op b; a missing argument is undefined.  === on two objects
\* compares identities, which the values here do not carry: two objects are
\* taken for the same one when they are equal.
ApplyPrimitive(name, params) ==
    LET a == IF Len(params) >= 1 THEN params[1] ELSE Undefined
        b == IF Len(params) >= 2 THEN params[2] ELSE Undefined
        x == ToNumber(a)
        y == ToNumber(b)
        ordered == Tag(x) = "num" /\ Tag(y) = "num"
    IN  CASE name = "+" -> IF Concatenates(a) \/ Concatenates(b)
                           THEN Sym(String(a) \o String(b))
                           ELSE Arith("+", x, y)
          [] name \in {"-", "*", "/"} -> Arith(name, x, y)
          [] name = "=" -> Bool(a = b /\ a # NaN)
          [] name = "<" -> Bool(ordered /\ x[2] < y[2])
          [] name = ">" -> Bool(ordered /\ x[2] > y[2])

Prim(name) == <<"prim", name>>

-----------------------------------------------------------------------------
(* Evaluator *)

(* The interpreter's functions take and return the store st: the heap, the  *)
(* trace of calls so far and the deepest native nesting so far.  d is the   *)
(* nesting depth of the call itself (repl is 0); the calls counted are      *)
(* evaluate, trampoline, evaluateWithTailCall, a Thunk's func and a         *)
(* procedure.  A result is [v, err, st]; err # NoError is a thrown error,   *)
(* which every function of the interpreter passes on to its caller.         *)

Max(a, b) == IF a >= b THEN a ELSE b

Ok(v, st) == [v |-> v, err |-> NoError, st |-> st]
Throw(err, st) == [v |-> Undefined, err |-> err, st |-> st]
Enter(st, d) == [st EXCEPT !.depth = Max(@, d)]
Log(st, event) == [st EXCEPT !.trace = Append(@, event)]

\* Reading a property of null or undefined
TypeError == <<"TypeError">>

\* JavaScript's ToBoolean, which if's `condition ? ... : ...` applies
Truthy(v) ==
    CASE Tag(v) = "bool" -> v[2]
      [] Tag(v) = "num" -> v[2] # 0
      [] Tag(v) = "sym" -> v[2] # <<>>
      [] Tag(v) \in {"nan", "null", "undefined"} -> FALSE
      [] OTHER -> TRUE

\* v.car.cdr...: the properties of path read in order.  Reading a property of
\* null or undefined throws; of another value that is no Cons, gives undefined.
RECURSIVE Deref(_, _)
Deref(v, path) ==
    IF path = <<>> THEN [v |-> v, err |-> NoError]
    ELSE IF Tag(v) \in {"null", "undefined"} THEN [v |-> Undefined, err |-> TypeError]
    ELSE IF ~IsCons(v) THEN Deref(Undefined, Tail(path))
    ELSE Deref(IF Head(path) = "car" THEN v[2] ELSE v[3], Tail(path))

Thunk(kind, a, b) == <<"thunk", kind, a, b>>
Closure(args, env) == <<"closure", args, env>>

RECURSIVE evaluate(_, _, _, _)
RECURSIVE trampoline(_, _, _)
RECURSIVE evaluateWithTailCall(_, _, _, _)
RECURSIVE runThunk(_, _, _)
RECURSIVE callProcedure(_, _, _, _)
RECURSIVE bindParams(_, _, _, _, _)
RECURSIVE evalBegin(_, _, _, _, _)
RECURSIVE evalArguments(_, _, _, _)
RECURSIVE evalArgumentsRightToLeft(_, _, _, _)

\* env.define(symbol, value) as a call of the interpreter
envDefine(env, symbol, value, st, d) ==
    Log([st EXCEPT !.heap = define(@, env, symbol, value)],
        <<"define", d, env, symbol, value>>)

evaluate(expr, env, st, d) ==
    LET r == evaluateWithTailCall(expr, env,
                 Log(Enter(st, d), <<"evaluate", d, expr, env>>), d + 1)
    IN  IF r.err # NoError THEN r
        ELSE LET t == trampoline(r.v, r.st, d + 1)
             IN  IF t.err # NoError THEN t
                 ELSE Ok(t.v, Log(t.st, <<"return", d, t.v>>))

\* if (result instanceof Thunk) instead of while: one Thunk is run
trampolineOnce(result, st, d) ==
    IF IsThunk(result) THEN runThunk(result, Enter(st, d), d + 1)
    ELSE Ok(result, Enter(st, d))

trampoline(result, st, d) ==
    IF IsThunk(result)
    THEN LET r == runThunk(result, Enter(st, d), d + 1)
         IN  IF r.err # NoError THEN r ELSE trampoline(r.v, r.st, d)
    ELSE Ok(result, Enter(st, d))

\* the body of a closure, evaluated with evaluate: a nested trampoline
evalBodyNested(body, env, st, d) == evaluate(body, env, st, d)
\* return evaluateWithTailCall(args.cdr.car, newEnv)
evalBody(body, env, st, d) == evaluateWithTailCall(body, env, st, d)

\* params.forEach(param => { newEnv.define(paramList.car, param); ... })
bindParams(paramList, params, env, st, d) ==
    IF params = <<>> THEN Ok(Undefined, st)
    ELSE IF Tag(paramList) \in {"null", "undefined"} THEN Throw(TypeError, st)
    ELSE bindParams(Deref(paramList, <<"cdr">>).v, Tail(params), env,
                    envDefine(env, Deref(paramList, <<"car">>).v, Head(params),
                              st, d),
                    d)

\* proc(...evaluatedArgs): a primitive of repl, or the function that case
\* 'lambda' returned, which holds args and env
callProcedure(proc, params, st, d) ==
    IF Tag(proc) = "prim" THEN Ok(ApplyPrimitive(proc[2], params), Enter(st, d))
    ELSE LET args == proc[2]
             newEnv == Len(st.heap) + 1
             s1 == Log([Enter(st, d) EXCEPT !.heap = NewEnvironment(@, proc[3])],
                       <<"frame", d, proc, newEnv>>)
             paramList == Deref(args, <<"car">>)
         IN  IF paramList.err # NoError THEN Throw(TypeError, s1)
             ELSE LET bound == bindParams(paramList.v, params, newEnv, s1, d)
                      body == Deref(args, <<"cdr", "car">>)
                  IN  IF bound.err # NoError THEN bound
                      ELSE IF body.err # NoError THEN Throw(TypeError, bound.st)
                      ELSE evalBody(body.v, newEnv, bound.st, d + 1)

\* thunk.func()
runThunk(thunk, st, d) ==
    LET kind == thunk[2]
        s0 == Enter(st, d)
    IN  CASE kind = "if" ->
               LET args == thunk[3]
                   env == thunk[4]
                   test == Deref(args, <<"car">>)
               IN  IF test.err # NoError THEN Throw(TypeError, s0)
                   ELSE LET condition == evaluate(test.v, env, s0, d + 1)
                        IN  IF condition.err # NoError THEN condition
                            ELSE LET branch ==
                                       Deref(args, IF Truthy(condition.v)
                                                   THEN <<"cdr", "car">>
                                                   ELSE <<"cdr", "cdr", "car">>)
                                 IN  IF branch.err # NoError
                                     THEN Throw(TypeError, condition.st)
                                     ELSE evaluateWithTailCall(branch.v, env,
                                              Log(condition.st,
                                                  <<"if", d, args, condition.v, branch.v>>),
                                              d + 1)
          [] kind = "begin" ->
               evaluateWithTailCall(thunk[3][2], thunk[4], s0, d + 1)
          [] kind = "apply" ->
               callProcedure(thunk[3], thunk[4],
                             Log(s0, <<"call", d, thunk[3], thunk[4]>>), d + 1)

\* case 'begin': the while loop over expressions
evalBegin(expressions, result, env, st, d) ==
    IF ~IsCons(expressions) THEN Ok(result, st)
    ELSE IF expressions[3] = Null THEN Ok(Thunk("begin", expressions, env), st)
    ELSE LET r == evaluate(expressions[2], env, st, d + 1)
         IN  IF r.err # NoError THEN r
             ELSE evalBegin(expressions[3], r.v, env, r.st, d)

\* the arguments evaluated last to first
evalArgumentsRightToLeft(argList, env, st, d) ==
    IF ~IsCons(argList) THEN Ok(<<>>, st)
    ELSE LET rest == evalArgumentsRightToLeft(argList[3], env, st, d)
         IN  IF rest.err # NoError THEN rest
             ELSE LET r == evaluate(argList[2], env, rest.st, d + 1)
                  IN  IF r.err # NoError THEN r
                      ELSE Ok(<<r.v>> \o rest.v, r.st)

\* default case: the while loop filling evaluatedArgs
evalArguments(argList, env, st, d) ==
    IF ~IsCons(argList) THEN Ok(<<>>, st)
    ELSE LET r == evaluate(argList[2], env, st, d + 1)
         IN  IF r.err # NoError THEN r
             ELSE LET rest == evalArguments(argList[3], env, r.st, d)
                  IN  IF rest.err # NoError THEN rest
                      ELSE Ok(<<r.v>> \o rest.v, rest.st)

\* case 'define'
evalDefine(args, env, st, d) ==
    LET symbol == Deref(args, <<"car">>)
        expr == Deref(args, <<"cdr", "car">>)
    IN  IF symbol.err # NoError \/ expr.err # NoError THEN Throw(TypeError, st)
        ELSE LET value == evaluate(expr.v, env, st, d + 1)
             IN  IF value.err # NoError THEN value
                 ELSE Ok(Undefined, envDefine(env, symbol.v, value.v, value.st, d))

\* default case
evalApplication(op, args, env, st, d) ==
    LET proc == evaluate(op, env, Log(st, <<"app", d, op, args, env>>), d + 1)
    IN  IF proc.err # NoError THEN proc
        ELSE LET evaluatedArgs == evalArguments(args, env, proc.st, d)
             IN  IF evaluatedArgs.err # NoError THEN evaluatedArgs
                 ELSE IF IsFunction(proc.v)
                 THEN Ok(Thunk("apply", proc.v, evaluatedArgs.v), evaluatedArgs.st)
                 ELSE Throw(String(op) \o <<" is not a function">>, evaluatedArgs.st)

evaluateWithTailCall(expr, env, st, d) ==
    LET s0 == Enter(st, d)
    IN  IF IsString(expr)
        THEN LET found == lookup(s0.heap, env, expr)
             IN  IF found.err # NoError THEN Throw(found.err, s0) ELSE Ok(found.v, s0)
        ELSE IF ~IsCons(expr) THEN Ok(expr, s0)
        ELSE LET op == expr[2]
                 args == expr[3]
             IN  CASE op = Sym(<<"quote">>) ->
                        LET quoted == Deref(args, <<"car">>)
                        IN  IF quoted.err # NoError THEN Throw(TypeError, s0)
                            ELSE Ok(quoted.v, s0)
                   [] op = Sym(<<"if">>) -> Ok(Thunk("if", args, env), s0)
                   [] op = Sym(<<"lambda">>) ->
                        Ok(Closure(args, env),
                           Log(s0, <<"lambda", d, env, Closure(args, env)>>))
                   [] op = Sym(<<"define">>) -> evalDefine(args, env, s0, d)
                   [] op = Sym(<<"begin">>) -> evalBegin(args, Undefined, env, s0, d)
                   [] OTHER -> evalApplication(op, args, env, s0, d)

(* The trace holds, in the order they happen:                               *)
(*   <<"evaluate", d, expr, env>>   evaluate is entered                      *)
(*   <<"return", d, value>>         that call of evaluate returns value      *)
(*   <<"app", d, op, args, env>>    the default case starts on (op . args)   *)
(*   <<"call", d, proc, params>>    a Thunk of the default case calls proc   *)
(*   <<"frame", d, proc, newEnv>>   the closure proc made its Environment    *)
(*   <<"define", d, env, symbol, value>>                                     *)
(*   <<"lambda", d, env, closure>>  case 'lambda' returns closure            *)
(*   <<"if", d, args, condition, branch>>  an if Thunk goes on with branch   *)
(* An error that is thrown ends the trace: nothing in the interpreter       *)
(* catches it.                                                              *)

-----------------------------------------------------------------------------
(* The lines the session reads *)

\* (define loop (lambda (n) (if (= n 0) 0 (loop (- n 1)))))
LoopDef ==
    <<"(", "define", " ", "loop", " ", "(", "lambda", " ", "(", "n", ")", " ",
      "(", "if", " ", "(", "=", " ", "n", " ", "0", ")", " ", "0", " ",
      "(", "loop", " ", "(", "-", " ", "n", " ", "1", ")", ")", ")", ")", ")">>

\* (loop n)
LoopCall(n) == <<"(", "loop", " ", DigitChar(n), ")">>

\* (if 0 1 2)
IfZero == <<"(", "if", " ", "0", " ", "1", " ", "2", ")">>

\* (if #f 1 2)
IfFalse == <<"(", "if", " ", "#f", " ", "1", " ", "2", ")">>

\* (if '() 1 2)
IfEmpty == <<"(", "if", " ", "'", "(", ")", " ", "1", " ", "2", ")">>

\* (begin (define x 1) (define f (lambda () x)))
DefXF ==
    <<"(", "begin", " ", "(", "define", " ", "x", " ", "1", ")", " ",
      "(", "define", " ", "f", " ", "(", "lambda", " ", "(", ")", " ", "x", ")",
      ")", ")">>

\* ((lambda (x) (f)) 9)
CallShadow ==
    <<"(", "(", "lambda", " ", "(", "x", ")", " ", "(", "f", ")", ")", " ", "9", ")">>

\* ((lambda (y) (begin (define x y) x)) 7)
DefInBody ==
    <<"(", "(", "lambda", " ", "(", "y", ")", " ", "(", "begin", " ",
      "(", "define", " ", "x", " ", "y", ")", " ", "x", ")", ")", " ", "7", ")">>

\* ((lambda (a b) a) 1)
TooFew ==
    <<"(", "(", "lambda", " ", "(", "a", " ", "b", ")", " ", "a", ")", " ", "1", ")">>

\* ((lambda (a) a) 1 2)
TooMany ==
    <<"(", "(", "lambda", " ", "(", "a", ")", " ", "a", ")", " ", "1", " ", "2", ")">>

\* (+ 1
Unclosed == <<"(", "+", " ", "1">>

\* the empty line
Empty == <<>>

\* (begin (define x 2) (y))
DefThenFail ==
    <<"(", "begin", " ", "(", "define", " ", "x", " ", "2", ")", " ",
      "(", "y", ")", ")">>

\* (+ 1 2)
Sum == <<"(", "+", " ", "1", " ", "2", ")">>

\* (1 2)
NotProc == <<"(", "1", " ", "2", ")">>

\* (1 y)
NotProcBadArg == <<"(", "1", " ", "y", ")">>

\* '(1 2 3)
QuoteList == <<"'", "(", "1", " ", "2", " ", "3", ")">>

\* (((lambda (a) (lambda (b) (- a b))) 5) 3)
Curry ==
    <<"(", "(", "(", "lambda", " ", "(", "a", ")", " ",
      "(", "lambda", " ", "(", "b", ")", " ", "(", "-", " ", "a", " ", "b", ")", ")", ")",
      " ", "5", ")", " ", "3", ")">>

Lines ==
    {LoopDef, IfZero, IfFalse, IfEmpty, DefXF, CallShadow, DefInBody, TooFew,
     TooMany, Unclosed, Empty, DefThenFail, Sum, NotProc, NotProcBadArg,
     QuoteList, Curry}
    \cup {LoopCall(n) : n \in 0..MaxN}

-----------------------------------------------------------------------------
(* repl *)

Primitives == {"+", "-", "*", "/", "=", "<", ">"}

\* globalEnv after the seven globalEnv.define calls
InitialHeap ==
    <<[vars |-> [k \in {Sym(<<p>>) : p \in Primitives} |-> Prim(k[2][1])],
       parent |-> 0]>>

NoOutput == [kind |-> "none", text |-> <<>>]

\* the texts SpecReader hands to parse
Texts == UNION {[1..n -> Alphabet] : n \in 0..MaxLen}

ReplInit ==
    /\ pc = "prompt"
    /\ heap = InitialHeap
    /\ lastInput = Undefined
    /\ out = NoOutput
    /\ trace = <<>>
    /\ maxDepth = 0
    /\ lines = 0

\* One turn of the loop on a line that is not null; an error thrown by parse
\* or evaluate ends the turn and the loop goes on
IterationStopOnError(input) ==
    /\ pc = "prompt"
    /\ lines < MaxLines
    /\ LET parsed == parse(input)
           r == evaluate(parsed.v, GlobalEnv,
                         [heap |-> heap, trace |-> <<>>, depth |-> 0], 1)
       IN  IF parsed.err # NoError
           THEN /\ out' = [kind |-> "error", text |-> parsed.err]
                /\ pc' = "exit"
                /\ UNCHANGED heap
                /\ trace' = <<>>
                /\ maxDepth' = 0
           ELSE /\ heap' = r.st.heap
                /\ trace' = r.st.trace
                /\ maxDepth' = r.st.depth
                /\ pc' = IF r.err # NoError THEN "exit" ELSE "prompt"
                /\ out' = IF r.err # NoError
                          THEN [kind |-> "error", text |-> r.err]
                          ELSE [kind |-> "log", text |-> printExpr(r.v)]
    /\ lastInput' = Sym(input)
    /\ lines' = lines + 1
    /\ UNCHANGED <<rin, rout>>

Iteration(input) ==
    /\ pc = "prompt"
    /\ lines < MaxLines
    /\ LET parsed == parse(input)
           r == evaluate(parsed.v, GlobalEnv,
                         [heap |-> heap, trace |-> <<>>, depth |-> 0], 1)
       IN  IF parsed.err # NoError
           THEN /\ out' = [kind |-> "error", text |-> parsed.err]
                /\ UNCHANGED heap
                /\ trace' = <<>>
                /\ maxDepth' = 0
           ELSE /\ heap' = r.st.heap
                /\ trace' = r.st.trace
                /\ maxDepth' = r.st.depth
                /\ out' = IF r.err # NoError
                          THEN [kind |-> "error", text |-> r.err]
                          ELSE [kind |-> "log", text |-> printExpr(r.v)]
    /\ pc' = "prompt"
    /\ lastInput' = Sym(input)
    /\ lines' = lines + 1
    /\ UNCHANGED <<rin, rout>>

\* prompt() returns a line
ReadLine == \E input \in Lines : Iteration(input)

\* prompt() returns null: break
EndOfInput ==
    /\ pc = "prompt"
    /\ pc' = "exit"
    /\ lastInput' = Null
    /\ UNCHANGED <<heap, out, trace, maxDepth, lines, rin, rout>>

Init == ReplInit /\ rin = <<>> /\ rout = NoOutput

Next == ReadLine \/ EndOfInput

Spec == Init /\ [][Next]_vars

-----------------------------------------------------------------------------
(* The reader on every short text *)

Pending == [v |-> Undefined, err |-> <<"pending">>]

ReaderInit == ReplInit /\ rin \in Texts /\ rout = Pending

Read ==
    /\ rout = Pending
    /\ rout' = parse(rin)
    /\ UNCHANGED <<pc, heap, lastInput, out, trace, maxDepth, lines, rin>>

ReaderNext == Read

SpecReader == ReaderInit /\ [][ReaderNext]_vars

-----------------------------------------------------------------------------
(* Notions the claims are stated in *)

Logged(text) == [kind |-> "log", text |-> text]
Failed(text) == [kind |-> "error", text |-> text]
Events(kind) == {i \in DOMAIN trace : trace[i][1] = kind}
GlobalBinds(name) == Sym(<<name>>) \in DOMAIN heap[GlobalEnv].vars
Global(name) == heap[GlobalEnv].vars[Sym(<<name>>)]

\* the number of parameters of a closure
ParamCount(closure) == Len(linkedListToArray(Deref(closure[2], <<"car">>).v))

\* The tokens of a text as section 4.1 has them, for texts in which no quote
\* mark touches an atom: the maximal runs without white space, each
\* parenthesis on its own.  Blank text has no token.
SpecTokens(text) == SelectSeq(tokenize(text), LAMBDA t : t # <<>>)

\* The grammar of section 4.2, expr := atom | '(' expr* ')' | "'" expr: the
\* index after the expression that starts at token i, 0 when none does.
RECURSIVE ExprEnd(_, _)
RECURSIVE ListEnd(_, _)
ExprEnd(toks, i) ==
    IF i > Len(toks) THEN 0
    ELSE IF toks[i] = <<"(">> THEN ListEnd(toks, i + 1)
    ELSE IF toks[i] = <<")">> THEN 0
    ELSE IF toks[i] = <<"'">> THEN ExprEnd(toks, i + 1)
    ELSE i + 1

ListEnd(toks, i) ==
    IF i > Len(toks) THEN 0
    ELSE IF toks[i] = <<")">> THEN i + 1
    ELSE IF ExprEnd(toks, i) = 0 THEN 0
    ELSE ListEnd(toks, ExprEnd(toks, i))

OneExpression(toks) == ExprEnd(toks, 1) = Len(toks) + 1

ReaderErrors ==
    {<<"Unexpected end of input">>, <<"Unmatched parenthesis">>,
     <<"Unexpected closing parenthesis">>, <<"Unexpected extra input">>}

-----------------------------------------------------------------------------
(* C1 *)

\* C1: (if C T F) goes on with T for every value of C but false and with F
\* only for false; (if 0 1 2) prints 1 and (if #f 1 2) prints 2.
C1_IfTakesElseOnlyOnFalse ==
    /\ \A i \in Events("if") :
          LET args == trace[i][3]
              condition == trace[i][4]
          IN  trace[i][5] = IF condition = Bool(FALSE)
                            THEN Deref(args, <<"cdr", "cdr", "car">>).v
                            ELSE Deref(args, <<"cdr", "car">>).v
    /\ lastInput = Sym(IfZero) => out = Logged(<<"1">>)
    /\ lastInput = Sym(IfEmpty) => out = Logged(<<"1">>)
    /\ lastInput = Sym(IfFalse) => out = Logged(<<"2">>)

-----------------------------------------------------------------------------
(* C2 *)

\* C2: once loop is defined, (loop n) prints 0 for every n, the native calls
\* never nest deeper than a constant that is the same for every n, and every
\* call of loop is made by a Thunk the trampoline of the top evaluate runs.
C2_LoopRunsInConstantDepth ==
    \A n \in 0..MaxN :
        (lastInput = Sym(LoopCall(n)) /\ GlobalBinds("loop")) =>
            /\ out = Logged(<<"0">>)
            /\ maxDepth <= 8
            /\ \A i \in Events("call") :
                  trace[i][3] = Global("loop") => trace[i][2] = 3
            /\ Cardinality({i \in Events("call") :
                               trace[i][3] = Global("loop")}) = n + 1

C2_Witness ==
    /\ lastInput = Sym(LoopCall(MaxN))
    /\ GlobalBinds("loop")
    /\ out = Logged(<<"0">>)
    /\ Cardinality(Events("frame")) = MaxN + 1

-----------------------------------------------------------------------------
(* C3 *)

\* C3: a closure that is applied makes exactly one Environment, whose parent
\* is the environment the lambda expression was evaluated in and not the
\* caller's: with x and f = (lambda () x) defined globally, calling f from a
\* frame that binds x to 9 gives the global x.
C3_FrameParentIsDefinitionEnv ==
    /\ \A i \in Events("call") :
          Tag(trace[i][3]) = "closure" =>
              /\ i < Len(trace)
              /\ trace[i + 1][1] = "frame"
              /\ trace[i + 1][3] = trace[i][3]
    /\ \A i \in Events("frame") :
          /\ i > 1 /\ trace[i - 1][1] = "call"
          /\ heap[trace[i][4]].parent = trace[i][3][3]
          \* the frames made in this turn are the last ones of the heap
          /\ trace[i][4] = Len(heap) - Cardinality({j \in Events("frame") : j > i})
    /\ \A i \in Events("lambda") : trace[i][4][3] = trace[i][3]
    /\ (lastInput = Sym(CallShadow) /\ GlobalBinds("f") /\ GlobalBinds("x")) =>
          out = Logged(printExpr(Global("x")))

C3_Witness ==
    /\ lastInput = Sym(CallShadow)
    /\ GlobalBinds("f")
    /\ GlobalBinds("x")
    /\ Global("x") = Num(1)
    /\ out = Logged(<<"1">>)
    /\ \E i \in Events("frame") :
          heap[trace[i][4]].vars = (Sym(<<"x">>) :> Num(9))

-----------------------------------------------------------------------------
(* C4 *)

DefinesOf(tr, env, symbol) ==
    {i \in DOMAIN tr : tr[i][1] = "define" /\ tr[i][3] = env /\ tr[i][4] = symbol}

\* C4: define changes the binding of its symbol in its own frame and nothing
\* else: over one turn of the loop a frame keeps its parent and its symbols,
\* a binding changes or appears only in a frame on which define was called
\* for that symbol, and it then holds the value of the last such call.
C4_DefineTouchesItsFrameOnly ==
    [][/\ Len(heap') >= Len(heap)
       /\ \A e \in DOMAIN heap :
             /\ heap'[e].parent = heap[e].parent
             /\ DOMAIN heap[e].vars \subseteq DOMAIN heap'[e].vars
             /\ \A k \in DOMAIN heap[e].vars :
                   heap'[e].vars[k] # heap[e].vars[k] =>
                       DefinesOf(trace', e, k) # {}
       /\ \A e \in DOMAIN heap' :
             \A k \in DOMAIN heap'[e].vars :
                 /\ (e \notin DOMAIN heap \/ k \notin DOMAIN heap[e].vars) =>
                        DefinesOf(trace', e, k) # {}
                 /\ (heap' # heap /\ DefinesOf(trace', e, k) # {}) =>
                        \E i \in DefinesOf(trace', e, k) :
                            /\ \A j \in DefinesOf(trace', e, k) : j <= i
                            /\ heap'[e].vars[k] = trace'[i][5]
      ]_vars

C4_Witness ==
    /\ lastInput = Sym(DefInBody)
    /\ GlobalBinds("x")
    /\ Global("x") = Num(1)
    /\ \E i \in Events("define") :
          /\ trace[i][3] # GlobalEnv
          /\ trace[i][4] = Sym(<<"x">>)
          /\ heap[trace[i][3]].vars[Sym(<<"x">>)] = Num(7)

-----------------------------------------------------------------------------
(* C5 *)

\* C5: evaluate never returns a Thunk: none is returned by any call of
\* evaluate (so none reaches the printer), bound by define, passed to a
\* procedure, used as the condition of an if, or left in an environment.
C5_NoThunkLeavesEvaluate ==
    /\ \A i \in Events("return") : ~IsThunk(trace[i][3])
    /\ \A i \in Events("define") : ~IsThunk(trace[i][5])
    /\ \A i \in Events("if") : ~IsThunk(trace[i][4])
    /\ \A i \in Events("call") :
          \A k \in DOMAIN trace[i][4] : ~IsThunk(trace[i][4][k])
    /\ \A e \in DOMAIN heap :
          \A k \in DOMAIN heap[e].vars : ~IsThunk(heap[e].vars[k])

C5_Witness ==
    /\ lastInput = Sym(Curry)
    /\ out = Logged(<<"2">>)
    /\ Cardinality(Events("call")) = 3
    /\ trace[Len(trace)] = <<"return", 1, Num(2)>>

-----------------------------------------------------------------------------
(* C6 *)

\* C6: a closure applied to a number of arguments other than its number of
\* parameters fails with an error of its own (not a property read of null),
\* and its body is not evaluated.
C6_ArityMismatchFails ==
    \A i \in Events("call") :
        (Tag(trace[i][3]) = "closure"
            /\ ParamCount(trace[i][3]) # Len(trace[i][4])) =>
            /\ out.kind = "error"
            /\ out.text # TypeError
            /\ \A j \in DOMAIN trace : j > i => trace[j][1] \in {"frame", "define"}

-----------------------------------------------------------------------------
(* C7 *)

\* C7: a line that fails in parse or evaluate does not end the loop; the
\* bindings of the global environment made before the failure, in earlier
\* lines or in the failing one, stay; only null ends the loop, the empty
\* line does not.
C7_FailedLineKeepsLoopAndBindings ==
    [][/\ lines' = lines + 1 => pc' = "prompt"
       /\ pc' = "exit" => lastInput' = Null
       /\ lastInput' = Sym(Empty) => pc' = "prompt"
       /\ (lines' = lines + 1 /\ out'.kind = "error") =>
             /\ \A k \in DOMAIN heap[GlobalEnv].vars :
                   /\ k \in DOMAIN heap'[GlobalEnv].vars
                   /\ DefinesOf(trace', GlobalEnv, k) = {} =>
                         heap'[GlobalEnv].vars[k] = heap[GlobalEnv].vars[k]
             /\ \A i \in DOMAIN trace' :
                   (trace'[i][1] = "define" /\ trace'[i][3] = GlobalEnv) =>
                       /\ trace'[i][4] \in DOMAIN heap'[GlobalEnv].vars
                       /\ (\A j \in DefinesOf(trace', GlobalEnv, trace'[i][4]) : j <= i)
                             => heap'[GlobalEnv].vars[trace'[i][4]] = trace'[i][5]
      ]_vars

C7_Witness ==
    /\ lines = 2
    /\ pc = "prompt"
    /\ lastInput = Sym(DefThenFail)
    /\ out = Failed(<<"Undefined variable: ", "y">>)
    /\ GlobalBinds("loop")
    /\ Global("x") = Num(2)

-----------------------------------------------------------------------------
(* C8 *)

\* C8: parse returns a value only when the tokens are exactly one complete
\* expression; every other text fails with a reader error and no value:
\* blank text and a quote with nothing after it with "unexpected end of
\* input", tokens after the first expression with "trailing input", an
\* unterminated list with "unmatched parenthesis", a leading ')' with
\* "unexpected closing parenthesis".
C8_ParseAcceptsExactlyOneExpression ==
    rout # Pending =>
        LET toks == SpecTokens(rin)
        IN  /\ rout.err = NoError <=> OneExpression(toks)
            /\ rout.err # NoError => rout.err \in ReaderErrors /\ rout.v = Undefined
            /\ toks = <<>> => rout.err = <<"Unexpected end of input">>
            /\ (toks # <<>> /\ \A i \in DOMAIN toks : toks[i] = <<"'">>) =>
                  rout.err = <<"Unexpected end of input">>
            /\ (toks # <<>> /\ toks[1] = <<")">>) =>
                  rout.err = <<"Unexpected closing parenthesis">>
            /\ (ExprEnd(toks, 1) > 0 /\ ExprEnd(toks, 1) <= Len(toks)) =>
                  rout.err = <<"Unexpected extra input">>
            /\ (toks # <<>> /\ toks[1] = <<"(">>
                  /\ \A i \in 2..Len(toks) : toks[i] \notin {<<"(">>, <<")">>, <<"'">>}) =>
                  rout.err = <<"Unmatched parenthesis">>

-----------------------------------------------------------------------------
(* C9 *)

\* C9: for every expression e, atom or list, the ' of 'e is a token of its
\* own and 'e parses to (quote e), the pair of the symbol quote and the pair
\* of parse(e) and the empty list.
C9_QuoteDesugarsForEveryExpression ==
    (rout # Pending /\ rin # <<>> /\ Head(rin) = "'"
        /\ OneExpression(SpecTokens(Tail(rin)))) =>
        /\ tokenize(rin)[1] = <<"'">>
        /\ rout = [v |-> Cons(Sym(<<"quote">>), Cons(parse(Tail(rin)).v, Null)),
                   err |-> NoError]

-----------------------------------------------------------------------------
(* C10 *)

\* The application that "app" event i starts ends before the first later
\* event that is not nested in it: the call its Thunk makes, or an event of
\* a caller.
AppEnd(i) ==
    LET d == trace[i][2]
        later == {j \in DOMAIN trace :
                    /\ j > i
                    /\ \/ trace[j][2] <= d
                       \/ trace[j][1] = "call" /\ trace[j][2] = d + 1}
    IN  IF later = {} THEN Len(trace) + 1
        ELSE CHOOSE j \in later : \A k \in later : j <= k

\* the calls of evaluate that event i's application makes itself, and their
\* returns
AppSteps(i) ==
    SelectSeq(SubSeq(trace, i + 1, AppEnd(i) - 1),
              LAMBDA e : e[2] = trace[i][2] + 1)

\* OP, then A1 ... An, each evaluated to its end before the next starts
InOrder(i) ==
    LET exprs == <<trace[i][3]>> \o linkedListToArray(trace[i][4])
        steps == AppSteps(i)
    IN  /\ Len(steps) <= 2 * Len(exprs)
        /\ \A k \in DOMAIN steps :
              IF k % 2 = 1
              THEN steps[k] = <<"evaluate", trace[i][2] + 1, exprs[(k + 1) \div 2],
                                trace[i][5]>>
              ELSE steps[k][1] = "return"

AllEvaluated(i) == Len(AppSteps(i)) = 2 * (1 + Len(linkedListToArray(trace[i][4])))
OperatorEvaluated(i) == Len(AppSteps(i)) >= 2
OperatorValue(i) == AppSteps(i)[2][3]
ArgumentValues(i) ==
    [k \in 1..Len(linkedListToArray(trace[i][4])) |-> AppSteps(i)[2 * k + 2][3]]
NotAFunction(i) == Failed(String(trace[i][3]) \o <<" is not a function">>)

\* the procedure is applied only after OP and every argument, to their values
AppliedLast(i) ==
    IF AllEvaluated(i) /\ IsFunction(OperatorValue(i))
    THEN /\ AppEnd(i) <= Len(trace)
         /\ trace[AppEnd(i)][1] = "call"
         /\ trace[AppEnd(i)][3] = OperatorValue(i)
         /\ trace[AppEnd(i)][4] = ArgumentValues(i)
    ELSE AppEnd(i) = Len(trace) + 1 /\ out.kind = "error"

\* C10: (OP A1 ... An) evaluates OP, then A1 ... An from left to right, each
\* to its end, and only then applies the procedure to the values; when OP
\* does not evaluate to a procedure the evaluation fails with "is not a
\* function" and nothing is applied.
C10_OperatorThenArgumentsThenApply ==
    \A i \in Events("app") :
        /\ InOrder(i)
        /\ AppliedLast(i)
        /\ (OperatorEvaluated(i) /\ ~IsFunction(OperatorValue(i))) =>
              out = NotAFunction(i)

\* C10 as amended: when OP does not evaluate to a procedure nothing is
\* applied, and the evaluation fails with "is not a function" once every
\* argument has been evaluated; an error thrown by an argument comes first.
C10_NotAFunctionAfterArguments ==
    \A i \in Events("app") :
        /\ InOrder(i)
        /\ AppliedLast(i)
        /\ (AllEvaluated(i) /\ ~IsFunction(OperatorValue(i))) =>
              out = NotAFunction(i)

C10_Witness ==
    /\ lastInput = Sym(NotProc)
    /\ out = Failed(<<"1", " is not a function">>)
    /\ \E i \in Events("app") : AllEvaluated(i) /\ OperatorValue(i) = Num(1)

=============================================================================
